---- MODULE Spec2Model ----
(***************************************************************************)
(* Account keys of the Flow CLI (package flowkit, account keys; package    *)
(* project, accounts).  A key is built from a configuration record by      *)
(* accountKeyFromConfig and then used through the AccountKey interface:    *)
(* Signer, PrivateKey, Validate, ToConfig.  Accounts are built from the    *)
(* configuration by accountsFromConfig and written back by                 *)
(* accountsToConfig.                                                       *)
(*                                                                         *)
(* Go strings that the code takes apart (file contents, resource ids,      *)
(* derivation paths, command output, error texts) are sequences of string  *)
(* tokens; an error is its text, and <<>> is the nil error.                *)
(***************************************************************************)
EXTENDS Integers, Sequences, FiniteSets, TLC

\* ------------------------------------------------------------------ bounds
MaxIndex == 1
MaxOps == 3
MaxFileChanges == 1
MaxAccounts == 3

\* ------------------------------------------------------- the value domains
KeyTypeHex == "hex"
KeyTypeBip44 == "bip44"
KeyTypeGoogleKMS == "google-kms"
KeyTypeFile == "file"
KeyTypes == {KeyTypeHex, KeyTypeBip44, KeyTypeGoogleKMS, KeyTypeFile}
OtherTags == {"unknown-type", ""}

UnknownSignatureAlgorithm == "UnknownSignatureAlgorithm"
ECDSA_P256 == "ECDSA_P256"
ECDSA_secp256k1 == "ECDSA_secp256k1"
SigAlgos == {UnknownSignatureAlgorithm, ECDSA_P256, ECDSA_secp256k1}

UnknownHashAlgorithm == "UnknownHashAlgorithm"
SHA3_256 == "SHA3_256"
SHA2_256 == "SHA2_256"
HashAlgos == {UnknownHashAlgorithm, SHA2_256}

NoError == <<>>

\* crypto.PrivateKey is an interface value: nil, or a key of one algorithm.
NilPK == [algo |-> "nil", bytes |-> <<>>]
PK(algo, bytes) == [algo |-> algo, bytes |-> bytes]
InlineKeys == {PK(ECDSA_P256, <<171>>), PK(ECDSA_secp256k1, <<205>>)}

\* cloudkms.Key
ZeroKmsKey ==
    [ProjectID |-> "", LocationID |-> "", KeyRingID |-> "", KeyID |-> "", KeyVersion |-> ""]

\* crypto.Signer is an interface value: nil, in memory, or remote.
NilSigner == [kind |-> "nil", pk |-> NilPK, hashAlgo |-> "", kmsKey |-> ZeroKmsKey]

GoodResourceID ==
    <<"projects", "p1", "locations", "global", "keyRings", "flow", "cryptoKeys", "k", "cryptoKeyVersions", "1">>
NoProjectResourceID ==
    <<"projects", "", "locations", "global", "keyRings", "flow", "cryptoKeys", "k", "cryptoKeyVersions", "1">>
BadResourceID == <<"not-a-resource-id">>
ResourceIDs == {GoodResourceID, NoProjectResourceID, BadResourceID}

Locations == {"a.pkey", "b.pkey"}
HexDigits == {"ab", "cd"}
FileContents == {<<"0x", "ab">>, <<"cd">>, <<"zz">>}
NoFile == [exists |-> FALSE, data |-> <<>>]
File(data) == [exists |-> TRUE, data |-> data]

ValidMnemonic == "valid twelve word mnemonic"
Mnemonics == {"", "not a valid mnemonic phrase at all", ValidMnemonic}
PathComponents == {"44'", "539'", "0'", "0"}
GoodPath == <<"m", "44'", "0">>
DerivationPaths == {<<>>, <<"m", "x">>, GoodPath}

CurveBitcoin == "CurveBitcoin"
CurveP256 == "CurveP256"

\* config.AccountKey
ConfigAccountKey(type, index, sigAlgo, hashAlgo, privateKey, rid, loc, mnemonic, path) ==
    [Type |-> type, Index |-> index, SigAlgo |-> sigAlgo, HashAlgo |-> hashAlgo,
     PrivateKey |-> privateKey, ResourceID |-> rid, Location |-> loc,
     Mnemonic |-> mnemonic, DerivationPath |-> path]

\* The key objects: the four struct types, each embedding *baseAccountKey.
KeyObject(kind, keyType, index, sigAlgo, hashAlgo) ==
    [kind |-> kind, keyType |-> keyType, index |-> index, sigAlgo |-> sigAlgo,
     hashAlgo |-> hashAlgo, privateKey |-> NilPK, location |-> "", mnemonic |-> "",
     derivationPath |-> <<>>, kmsKey |-> ZeroKmsKey]
NilKey == KeyObject("nil", "", 0, UnknownSignatureAlgorithm, UnknownHashAlgorithm)


\* ------------------------------------------- the libraries the code calls
\* encoding/hex: two hex digits per byte; any other text does not decode.
HexOfByte(b) == CASE b = 171 -> "ab" [] b = 205 -> "cd" [] OTHER -> "00"
ByteOfHex(h) == CASE h = "ab" -> 171 [] h = "cd" -> 205 [] OTHER -> 0
EncodeToString(bytes) == [i \in 1..Len(bytes) |-> HexOfByte(bytes[i])]
DecodeString(text) ==
    IF \A i \in 1..Len(text) : text[i] \in HexDigits
    THEN [bytes |-> [i \in 1..Len(text) |-> ByteOfHex(text[i])], err |-> NoError]
    ELSE [bytes |-> <<>>, err |-> <<"encoding/hex: invalid byte">>]

\* strings.TrimPrefix
TrimPrefix(text, prefix) ==
    IF Len(text) > 0 /\ text[1] = prefix THEN Tail(text) ELSE text

\* crypto.DecodePrivateKey: needs a supported algorithm and a scalar.
DecodePrivateKey(sigAlgo, bytes) ==
    IF sigAlgo = UnknownSignatureAlgorithm
    THEN [key |-> NilPK, err |-> <<"crypto: unsupported signature algorithm ", sigAlgo>>]
    ELSE IF bytes = <<>>
    THEN [key |-> NilPK, err |-> <<"crypto: invalid private key length">>]
    ELSE [key |-> PK(sigAlgo, bytes), err |-> NoError]

\* crypto.DecodePrivateKeyHex
DecodePrivateKeyHex(sigAlgo, text) ==
    LET d == DecodeString(text) IN
    IF d.err # NoError THEN [key |-> NilPK, err |-> d.err]
    ELSE DecodePrivateKey(sigAlgo, d.bytes)

\* crypto.NewInMemorySigner: fails only for a hash algorithm without a hasher.
NewInMemorySigner(privateKey, hashAlgo) ==
    IF hashAlgo = UnknownHashAlgorithm
    THEN [signer |-> NilSigner, err |-> <<"crypto: invalid hash algorithm ", hashAlgo>>]
    ELSE [signer |-> [kind |-> "InMemorySigner", pk |-> privateKey,
                      hashAlgo |-> hashAlgo, kmsKey |-> ZeroKmsKey],
          err |-> NoError]

\* cloudkms.KeyFromResourceID: ten "/"-separated parts, the even ones are the ids.
KeyFromResourceID(resourceID) ==
    IF Len(resourceID) # Len(GoodResourceID)
    THEN [key |-> ZeroKmsKey, err |-> <<"cloudkms: key resource ID has invalid format: ">> \o resourceID]
    ELSE [key |-> [ProjectID |-> resourceID[2], LocationID |-> resourceID[4],
                   KeyRingID |-> resourceID[6], KeyID |-> resourceID[8],
                   KeyVersion |-> resourceID[10]],
          err |-> NoError]

\* cloudkms.Key.ResourceID
ResourceID(k) ==
    <<"projects", k.ProjectID, "locations", k.LocationID, "keyRings", k.KeyRingID,
      "cryptoKeys", k.KeyID, "cryptoKeyVersions", k.KeyVersion>>

\* bip39.IsMnemonicValid, bip39.NewSeed
IsMnemonicValid(mnemonic) == mnemonic = ValidMnemonic
NewSeed(mnemonic) == IF mnemonic = ValidMnemonic THEN <<7>> ELSE <<9>>

\* goeth.ParseDerivationPath: "m" and then numeric components, "'" hardens
\* (sets the top bit of the 32-bit index: kept here as the index's high byte).
ComponentIndex(c) ==
    CASE c = "44'" -> <<128, 44>> [] c = "539'" -> <<128, 539>>
      [] c = "0'" -> <<128, 0>> [] OTHER -> <<0, 0>>
ParseDerivationPath(path) ==
    IF Len(path) < 2 \/ path[1] # "m"
       \/ \E i \in 2..Len(path) : path[i] \notin PathComponents
    THEN [path |-> <<>>, err |-> <<"invalid derivation path">>]
    ELSE [path |-> [i \in 1..(Len(path) - 1) |-> ComponentIndex(path[i + 1])],
          err |-> NoError]

\* slip10.NewMasterKeyWithCurve, Key.NewChildKey: the key bytes are a function
\* of the curve, the seed and the indices walked so far.
CurveByte(curve) == IF curve = CurveP256 THEN 1 ELSE 2
NewMasterKeyWithCurve(seed, curve) == [Key |-> <<CurveByte(curve)>> \o seed]
NewChildKey(k, n) == [Key |-> k.Key \o n]
RECURSIVE WalkPath(_, _)
WalkPath(k, path) ==
    IF path = <<>> THEN k ELSE WalkPath(NewChildKey(k, Head(path)), Tail(path))
CurveOfKeyBytes(bytes) == IF bytes[1] = 1 THEN CurveP256 ELSE CurveBitcoin

\* regexp (?s)\[(.*)\] : from the first "[" to the last "]", greedy.
FindAllStringSubmatch(output) ==
    LET opens == {i \in 1..Len(output) : output[i] = "["}
        closes == {j \in 1..Len(output) : output[j] = "]"}
    IN IF opens = {} \/ closes = {} THEN <<>>
       ELSE LET i == CHOOSE x \in opens : \A y \in opens : x <= y
                j == CHOOSE x \in closes : \A y \in closes : x >= y
            IN IF j < i THEN <<>>
               ELSE << <<SubSeq(output, i, j), SubSeq(output, i + 1, j - 1)>> >>


\* ---------------------------------------------------------- baseAccountKey
baseKeyFromConfig(kind, accountKeyConf) ==
    KeyObject(kind, accountKeyConf.Type, accountKeyConf.Index, accountKeyConf.SigAlgo,
              accountKeyConf.HashAlgo)

Type(a) == a.keyType

SigAlgo(a) ==
    IF a.sigAlgo = UnknownSignatureAlgorithm THEN ECDSA_P256 ELSE a.sigAlgo

HashAlgo(a) ==
    IF a.hashAlgo = UnknownHashAlgorithm THEN SHA3_256 ELSE a.hashAlgo

Index(a) == a.index

\* What a method call leaves behind: the receiver, the values returned, whether
\* it panicked, the external calls it made in order, the process environment,
\* and how many file reads and derivations it ran.
Outcome(self, pk, signer, err, env) ==
    [self |-> self, pk |-> pk, signer |-> signer, err |-> err, panicked |-> FALSE,
     calls |-> <<>>, env |-> env, reads |-> 0, derivs |-> 0]

baseAccountKey_Validate(a, env) == Outcome(a, NilPK, NilSigner, NoError, env)

\* ------------------------------------------------------------ KmsAccountKey
kmsKeyFromConfig(key) ==
    LET r == KeyFromResourceID(key.ResourceID) IN
    IF r.err # NoError THEN [key |-> NilKey, err |-> r.err]
    ELSE [key |-> [KeyObject("Kms", KeyTypeGoogleKMS, key.Index, key.SigAlgo, key.HashAlgo)
                     EXCEPT !.kmsKey = r.key],
          err |-> NoError]

KmsAccountKey_ToConfig(a) ==
    ConfigAccountKey(a.keyType, a.index, a.sigAlgo, a.hashAlgo, NilPK,
                     ResourceID(a.kmsKey), "", "", <<>>)

\* client, remote: whether cloudkms.NewClient and SignerForKey succeed.
KmsAccountKey_Signer(a, env, client, remote) ==
    IF ~client
    THEN [Outcome(a, NilPK, NilSigner, <<"cloudkms: failed to initialize client">>, env)
            EXCEPT !.calls = <<"cloudkms.NewClient">>]
    ELSE IF ~remote
    THEN [Outcome(a, NilPK, NilSigner, <<"cloudkms: failed to fetch public key">>, env)
            EXCEPT !.calls = <<"cloudkms.NewClient", "SignerForKey">>]
    ELSE [Outcome(a, NilPK,
                  [kind |-> "cloudkms.Signer", pk |-> NilPK, hashAlgo |-> "",
                   kmsKey |-> a.kmsKey],
                  NoError, env)
            EXCEPT !.calls = <<"cloudkms.NewClient", "SignerForKey">>]

\* login: what the gcloud command did, [ok, output].
gcloudApplicationSignin(a, resourceID, env, login) ==
    LET me == <<"gcloudApplicationSignin">>
        kms == KeyFromResourceID(resourceID)
        regexResult == FindAllStringSubmatch(login.output)
    IN
    IF Len(env) > 0
    THEN [Outcome(a, NilPK, NilSigner, NoError, env) EXCEPT !.calls = me]
    ELSE IF kms.err # NoError
    THEN [Outcome(a, NilPK, NilSigner, kms.err, env) EXCEPT !.calls = me]
    ELSE IF kms.key.ProjectID = ""
    THEN [Outcome(a, NilPK, NilSigner,
                  <<"could not get GOOGLE_APPLICATION_CREDENTIALS, no google service account JSON provided but private key type is KMS">>,
                  env)
            EXCEPT !.calls = me]
    ELSE IF ~login.ok
    THEN [Outcome(a, NilPK, NilSigner,
                  <<"Failed to run ", "gcloud auth application-default login --project=",
                    kms.key.ProjectID>>,
                  env)
            EXCEPT !.calls = me \o <<"gcloud">>]
    ELSE IF Len(regexResult) = 0
    THEN [Outcome(a, NilPK, NilSigner, <<"index out of range [0] with length 0">>, env)
            EXCEPT !.calls = me \o <<"gcloud">>, !.panicked = TRUE]
    ELSE [Outcome(a, NilPK, NilSigner, NoError, regexResult[1][2])
            EXCEPT !.calls = me \o <<"gcloud">>]

KmsAccountKey_Validate(a, env, login) ==
    gcloudApplicationSignin(a, ResourceID(a.kmsKey), env, login)

KmsAccountKey_PrivateKey(a, env) ==
    Outcome(a, NilPK, NilSigner, <<"private key not accessible">>, env)

\* ------------------------------------------------------------ HexAccountKey
hexKeyFromConfig(accountKey) ==
    [key |-> [baseKeyFromConfig("Hex", accountKey)
                EXCEPT !.privateKey = accountKey.PrivateKey],
     err |-> NoError]

HexAccountKey_Signer(a, env) ==
    LET s == NewInMemorySigner(a.privateKey, HashAlgo(a)) IN
    Outcome(a, NilPK, s.signer, s.err, env)

HexAccountKey_PrivateKey(a, env) == Outcome(a, a.privateKey, NilSigner, NoError, env)

\* Mutant: writes the resolved algorithms instead of the declared ones.
HexAccountKey_ToConfig_Resolved(a) ==
    ConfigAccountKey(a.keyType, a.index, SigAlgo(a), HashAlgo(a), a.privateKey,
                     <<>>, "", "", <<>>)

HexAccountKey_ToConfig(a) ==
    ConfigAccountKey(a.keyType, a.index, a.sigAlgo, a.hashAlgo, a.privateKey,
                     <<>>, "", "", <<>>)

PrivateKeyHex(a) == EncodeToString(a.privateKey.bytes)

HexAccountKey_Validate(a, env) ==
    LET d == DecodePrivateKeyHex(a.sigAlgo, PrivateKeyHex(a)) IN
    IF d.err # NoError
    THEN Outcome(a, NilPK, NilSigner, <<"invalid private key: ">> \o d.err, env)
    ELSE Outcome(a, NilPK, NilSigner, NoError, env)


\* ----------------------------------------------------------- FileAccountKey
fileKeyFromConfig(accountKey) ==
    [key |-> [baseKeyFromConfig("File", accountKey)
                EXCEPT !.location = accountKey.Location],
     err |-> NoError]

\* os.ReadFile
ReadFile(files, location) ==
    IF location \in DOMAIN files THEN files[location] ELSE NoFile

FileAccountKey_PrivateKey(f, env, files) ==
    IF f.privateKey = NilPK
    THEN LET key == ReadFile(files, f.location)
             pkey == DecodePrivateKeyHex(f.sigAlgo, TrimPrefix(key.data, "0x"))
         IN IF ~key.exists
            THEN [Outcome(f, NilPK, NilSigner,
                          <<"could not load the key for the account from provided location ",
                            f.location, ": no such file or directory">>,
                          env)
                    EXCEPT !.reads = 1]
            ELSE IF pkey.err # NoError
            THEN [Outcome(f, NilPK, NilSigner,
                          <<"could not decode the key from provided location ",
                            f.location, ": ">> \o pkey.err,
                          env)
                    EXCEPT !.reads = 1]
            ELSE [Outcome([f EXCEPT !.privateKey = pkey.key], pkey.key, NilSigner,
                          NoError, env)
                    EXCEPT !.reads = 1]
    ELSE Outcome(f, f.privateKey, NilSigner, NoError, env)

FileAccountKey_Signer(f, env, files) ==
    LET key == FileAccountKey_PrivateKey(f, env, files)
        s == NewInMemorySigner(key.pk, HashAlgo(f))
    IN IF key.err # NoError THEN [key EXCEPT !.pk = NilPK]
       ELSE [key EXCEPT !.pk = NilPK, !.signer = s.signer, !.err = s.err]

FileAccountKey_ToConfig(f) ==
    ConfigAccountKey(KeyTypeFile, 0, f.sigAlgo, f.hashAlgo, NilPK, <<>>, f.location,
                     "", <<>>)

\* ---------------------------------------------------------- Bip44AccountKey
bip44KeyFromConfig(key) ==
    [key |-> [KeyObject("Bip44", KeyTypeBip44, key.Index, key.SigAlgo, key.HashAlgo)
                EXCEPT !.derivationPath = key.DerivationPath,
                       !.mnemonic = key.Mnemonic],
     err |-> NoError]

\* The curve Validate derives on.
DerivationCurve(a) == IF a.sigAlgo = ECDSA_P256 THEN CurveP256 ELSE CurveBitcoin

Bip44AccountKey_Validate(a, env) ==
    LET derivationPath == ParseDerivationPath(a.derivationPath)
        seed == NewSeed(a.mnemonic)
        curve == DerivationCurve(a)
        accountKey == WalkPath(NewMasterKeyWithCurve(seed, curve), derivationPath.path)
        pkey == DecodePrivateKey(SigAlgo(a), accountKey.Key)
    IN
    IF ~IsMnemonicValid(a.mnemonic)
    THEN Outcome(a, NilPK, NilSigner,
                 <<"invalid mnemonic defined for account in flow.json">>, env)
    ELSE IF derivationPath.err # NoError
    THEN Outcome(a, NilPK, NilSigner,
                 <<"invalid derivation path defined for account in flow.json">>, env)
    ELSE [Outcome([a EXCEPT !.privateKey = pkey.key], NilPK, NilSigner, pkey.err, env)
            EXCEPT !.derivs = 1]

Bip44AccountKey_PrivateKey(a, env) ==
    IF a.privateKey = NilPK
    THEN LET v == Bip44AccountKey_Validate(a, env) IN
         IF v.err # NoError THEN v
         ELSE [v EXCEPT !.pk = v.self.privateKey]
    ELSE Outcome(a, a.privateKey, NilSigner, NoError, env)

Bip44AccountKey_Signer(a, env) ==
    LET pkey == Bip44AccountKey_PrivateKey(a, env)
        s == NewInMemorySigner(pkey.pk, HashAlgo(a))
    IN IF pkey.err # NoError THEN [pkey EXCEPT !.pk = NilPK]
       ELSE [pkey EXCEPT !.pk = NilPK, !.signer = s.signer, !.err = s.err]

Bip44AccountKey_ToConfig(a) ==
    ConfigAccountKey(a.keyType, a.index, a.sigAlgo, a.hashAlgo, a.privateKey, <<>>, "",
                     a.mnemonic, a.derivationPath)

\* -------------------------------------------------------------- the factory
\* Mutant: an unlisted tag falls through to the inline constructor.
accountKeyFromConfig_Fallthrough(accountKeyConf) ==
    CASE accountKeyConf.Type = KeyTypeBip44 -> bip44KeyFromConfig(accountKeyConf)
      [] accountKeyConf.Type = KeyTypeGoogleKMS -> kmsKeyFromConfig(accountKeyConf)
      [] accountKeyConf.Type = KeyTypeFile -> fileKeyFromConfig(accountKeyConf)
      [] OTHER -> hexKeyFromConfig(accountKeyConf)

accountKeyFromConfig(accountKeyConf) ==
    CASE accountKeyConf.Type = KeyTypeHex -> hexKeyFromConfig(accountKeyConf)
      [] accountKeyConf.Type = KeyTypeBip44 -> bip44KeyFromConfig(accountKeyConf)
      [] accountKeyConf.Type = KeyTypeGoogleKMS -> kmsKeyFromConfig(accountKeyConf)
      [] accountKeyConf.Type = KeyTypeFile -> fileKeyFromConfig(accountKeyConf)
      [] OTHER ->
           [key |-> NilKey,
            err |-> <<"invalid key type: \"", accountKeyConf.Type, "\"">>]

\* The AccountKey interface: dynamic dispatch on the struct type.
ToConfig(a) ==
    CASE a.kind = "Hex" -> HexAccountKey_ToConfig(a)
      [] a.kind = "Bip44" -> Bip44AccountKey_ToConfig(a)
      [] a.kind = "Kms" -> KmsAccountKey_ToConfig(a)
      [] a.kind = "File" -> FileAccountKey_ToConfig(a)

PrivateKey(a, env, files) ==
    CASE a.kind = "Hex" -> HexAccountKey_PrivateKey(a, env)
      [] a.kind = "Bip44" -> Bip44AccountKey_PrivateKey(a, env)
      [] a.kind = "Kms" -> KmsAccountKey_PrivateKey(a, env)
      [] a.kind = "File" -> FileAccountKey_PrivateKey(a, env, files)

Signer(a, env, files, client, remote) ==
    CASE a.kind = "Hex" -> HexAccountKey_Signer(a, env)
      [] a.kind = "Bip44" -> Bip44AccountKey_Signer(a, env)
      [] a.kind = "Kms" -> KmsAccountKey_Signer(a, env, client, remote)
      [] a.kind = "File" -> FileAccountKey_Signer(a, env, files)

Validate(a, env, login) ==
    CASE a.kind = "Hex" -> HexAccountKey_Validate(a, env)
      [] a.kind = "Bip44" -> Bip44AccountKey_Validate(a, env)
      [] a.kind = "Kms" -> KmsAccountKey_Validate(a, env, login)
      [] a.kind = "File" -> baseAccountKey_Validate(a, env)


\* ------------------------------------------------------------------ inputs
\* Fields of the record that belong to other variants: all unset, or all set.
Foreign ==
    {[pk |-> NilPK, rid |-> <<>>, loc |-> "", mn |-> "", path |-> <<>>],
     [pk |-> PK(ECDSA_P256, <<171>>), rid |-> GoodResourceID, loc |-> "a.pkey",
      mn |-> ValidMnemonic, path |-> GoodPath]}

KeyConfs ==
    UNION {
      {ConfigAccountKey(KeyTypeHex, i, s, h, pk, f.rid, f.loc, f.mn, f.path) :
         pk \in InlineKeys, f \in Foreign}
      \cup {ConfigAccountKey(KeyTypeFile, i, s, h, f.pk, f.rid, loc, f.mn, f.path) :
         loc \in Locations, f \in Foreign}
      \cup {ConfigAccountKey(KeyTypeGoogleKMS, i, s, h, f.pk, rid, f.loc, f.mn, f.path) :
         rid \in ResourceIDs, f \in Foreign}
      \cup {ConfigAccountKey(KeyTypeBip44, i, s, h, f.pk, f.rid, f.loc, mp[1], mp[2]) :
         mp \in Mnemonics \X DerivationPaths, f \in Foreign}
      \cup {ConfigAccountKey(t, i, s, h, f.pk, f.rid, f.loc, f.mn, f.path) :
         t \in OtherTags, f \in Foreign}
      : i \in 0..MaxIndex, s \in SigAlgos, h \in HashAlgos }

ZeroConf == ConfigAccountKey("", 0, UnknownSignatureAlgorithm, UnknownHashAlgorithm,
                             NilPK, <<>>, "", "", <<>>)

\* What the gcloud login command can do: fail, or print one of these outputs.
Logins ==
    {[ok |-> FALSE, output |-> <<"ERROR: login failed">>],
     [ok |-> TRUE, output |-> <<"Credentials saved to file: ", "[", "/adc.json", "]">>],
     [ok |-> TRUE, output |-> <<"You are now logged in">>]}

Environments == {<<>>, <<"/service-account.json">>}

\* ------------------------------------------------------------------- state
VARIABLES
    conf,       \* the key record handed to the factory
    key,        \* the key the factory returned (NilKey: none)
    pc,         \* "new", "ready", "failed" (no key), "panicked"
    env,        \* GOOGLE_APPLICATION_CREDENTIALS of the process
    files,      \* the file system: location -> file
    last,       \* the last call on the key and what it returned and did
    nops,       \* calls made on the key
    nchanges,   \* writes to the file system by others
    config,     \* conf.Accounts, the account records
    accounts,   \* the accounts accountsFromConfig returned
    apc,        \* "new", "loaded", "failed", "panicked"
    alast       \* the last call on the accounts and what it returned

keyVars == <<conf, key, pc, env, files, last, nops, nchanges>>
accountVars == <<config, accounts, apc, alast>>
vars == <<conf, key, pc, env, files, last, nops, nchanges, config, accounts, apc, alast>>

Call(op, before, envBefore, o, out) ==
    [op |-> op, before |-> before, envBefore |-> envBefore, pk |-> o.pk,
     signer |-> o.signer, err |-> o.err, panicked |-> o.panicked, calls |-> o.calls,
     reads |-> o.reads, derivs |-> o.derivs, out |-> out]

NoCall == Call("none", NilKey, <<>>, Outcome(NilKey, NilPK, NilSigner, NoError, <<>>), ZeroConf)

NoAccountCall ==
    [op |-> "none", arg |-> 0, accounts |-> <<>>, isNil |-> TRUE, err |-> NoError,
     key |-> NilKey, panicked |-> FALSE, out |-> <<>>]

InitKeys ==
    /\ conf \in KeyConfs
    /\ key = NilKey
    /\ pc = "new"
    /\ env \in Environments
    /\ files \in {[l \in Locations |-> IF l = "a.pkey" THEN f ELSE NoFile] :
                    f \in {NoFile, File(<<"0x", "ab">>)}}
    /\ last = NoCall
    /\ nops = 0
    /\ nchanges = 0

IdleAccounts ==
    /\ config = <<>>
    /\ accounts = <<>>
    /\ apc = "idle"
    /\ alast = NoAccountCall

Init == InitKeys /\ IdleAccounts

\* accountKeyFromConfig(conf)
Construct ==
    /\ pc = "new"
    /\ LET r == accountKeyFromConfig(conf) IN
       /\ key' = r.key
       /\ pc' = IF r.err = NoError THEN "ready" ELSE "failed"
       /\ last' = Call("accountKeyFromConfig", NilKey, env,
                       Outcome(r.key, NilPK, NilSigner, r.err, env), ZeroConf)
    /\ UNCHANGED <<conf, env, files, nops, nchanges, accountVars>>

\* The state after a method call with outcome o.
Called(op, o, out) ==
    /\ key' = o.self
    /\ env' = o.env
    /\ pc' = IF o.panicked THEN "panicked" ELSE "ready"
    /\ last' = Call(op, key, env, o, out)
    /\ nops' = nops + 1
    /\ UNCHANGED <<conf, files, nchanges, accountVars>>

CallSigner ==
    /\ pc = "ready" /\ nops < MaxOps
    /\ \E client \in BOOLEAN, remote \in BOOLEAN :
          Called("Signer", Signer(key, env, files, client, remote), ZeroConf)

CallPrivateKey ==
    /\ pc = "ready" /\ nops < MaxOps
    /\ Called("PrivateKey", PrivateKey(key, env, files), ZeroConf)

CallValidate ==
    /\ pc = "ready" /\ nops < MaxOps
    /\ \E login \in Logins : Called("Validate", Validate(key, env, login), ZeroConf)

CallToConfig ==
    /\ pc = "ready" /\ nops < MaxOps
    /\ Called("ToConfig", Outcome(key, NilPK, NilSigner, NoError, env), ToConfig(key))

\* Another process writes or removes the key's file.
FileChanged ==
    /\ pc = "ready" /\ nchanges < MaxFileChanges
    /\ \E l \in Locations, f \in {NoFile} \cup {File(c) : c \in FileContents} :
          /\ l = key.location
          /\ files[l] # f
          /\ files' = [files EXCEPT ![l] = f]
    /\ nchanges' = nchanges + 1
    /\ UNCHANGED <<conf, key, pc, env, last, nops, accountVars>>

Next ==
    \/ Construct
    \/ CallSigner
    \/ CallPrivateKey
    \/ CallValidate
    \/ CallToConfig
    \/ FileChanged

Spec == Init /\ [][Next]_vars


\* ---------------------------------------------------------------- accounts
\* config.Account and Account
ConfigAccount(name, address, keys) == [Name |-> name, Address |-> address, Keys |-> keys]
Account(name, address, keys) == [name |-> name, address |-> address, keys |-> keys]
NilAccount == Account("", "", <<>>)

\* The key factory of the accounts' package.
NewAccountKey(keyConf) == accountKeyFromConfig(keyConf)

NewHexAccountKeyFromPrivateKey(index, hashAlgo, privateKey) ==
    [KeyObject("Hex", KeyTypeHex, index, privateKey.algo, hashAlgo)
       EXCEPT !.privateKey = privateKey]

\* The loop of AccountFromConfig: accountKeys so far, the records still to do.
RECURSIVE AccountKeysLoop(_, _)
AccountKeysLoop(accountKeys, rest) ==
    IF rest = <<>> THEN [keys |-> accountKeys, err |-> NoError]
    ELSE LET r == NewAccountKey(Head(rest)) IN
         IF r.err # NoError THEN [keys |-> <<>>, err |-> r.err]
         ELSE AccountKeysLoop(Append(accountKeys, r.key), Tail(rest))

AccountFromConfig(accountConf) ==
    LET r == AccountKeysLoop(<<>>, accountConf.Keys) IN
    IF r.err # NoError THEN [account |-> NilAccount, isNil |-> TRUE, err |-> r.err]
    ELSE [account |-> Account(accountConf.Name, accountConf.Address, r.keys),
          isNil |-> FALSE, err |-> NoError]

\* The loop of accountsFromConfig: accounts so far, the records still to do.
RECURSIVE AccountsLoop(_, _)
AccountsLoop(accs, rest) ==
    IF rest = <<>> THEN [accounts |-> accs, isNil |-> FALSE, err |-> NoError]
    ELSE LET r == AccountFromConfig(Head(rest)) IN
         IF r.err # NoError THEN [accounts |-> <<>>, isNil |-> TRUE, err |-> r.err]
         ELSE AccountsLoop(Append(accs, r.account), Tail(rest))

\* Mutant: on an error, returns the accounts built so far with it.
RECURSIVE AccountsLoop_Partial(_, _)
AccountsLoop_Partial(accs, rest) ==
    IF rest = <<>> THEN [accounts |-> accs, isNil |-> FALSE, err |-> NoError]
    ELSE LET r == AccountFromConfig(Head(rest)) IN
         IF r.err # NoError THEN [accounts |-> accs, isNil |-> FALSE, err |-> r.err]
         ELSE AccountsLoop_Partial(Append(accs, r.account), Tail(rest))
accountsFromConfig_Partial(confAccounts) == AccountsLoop_Partial(<<>>, confAccounts)

accountsFromConfig(confAccounts) == AccountsLoop(<<>>, confAccounts)

AccountFromAddressAndKey(address, privateKey) ==
    Account("", address, <<NewHexAccountKeyFromPrivateKey(0, SHA3_256, privateKey)>>)

\* a.keys[0]: indexing an empty slice panics.
DefaultKey(a) ==
    IF Len(a.keys) = 0
    THEN [key |-> NilKey, panicked |-> TRUE,
          err |-> <<"runtime error: index out of range [0] with length 0">>]
    ELSE [key |-> a.keys[1], panicked |-> FALSE, err |-> NoError]

SetDefaultKey(a, k) ==
    IF Len(a.keys) = 0
    THEN [account |-> a, panicked |-> TRUE,
          err |-> <<"runtime error: index out of range [0] with length 0">>]
    ELSE [account |-> [a EXCEPT !.keys[1] = k], panicked |-> FALSE, err |-> NoError]

accountToConfig(account) ==
    ConfigAccount(account.name, account.address,
                  [i \in 1..Len(account.keys) |-> ToConfig(account.keys[i])])

accountsToConfig(accs) == [i \in 1..Len(accs) |-> accountToConfig(accs[i])]

\* The key records and key lists of the account records tried.
HexRecord ==
    ConfigAccountKey(KeyTypeHex, 0, ECDSA_P256, SHA3_256, PK(ECDSA_P256, <<171>>),
                     <<>>, "", "", <<>>)
FileRecord ==
    ConfigAccountKey(KeyTypeFile, 1, UnknownSignatureAlgorithm, UnknownHashAlgorithm,
                     NilPK, <<>>, "a.pkey", "", <<>>)
UnknownRecord == [ZeroConf EXCEPT !.Type = "unknown-type"]
BadKmsRecord == [ZeroConf EXCEPT !.Type = KeyTypeGoogleKMS, !.ResourceID = BadResourceID]
KeyLists ==
    {<<>>, <<HexRecord>>, <<UnknownRecord>>, <<BadKmsRecord>>,
     <<HexRecord, FileRecord>>, <<FileRecord, HexRecord>>, <<HexRecord, UnknownRecord>>}

AccountRecords == {ConfigAccount("emulator-account", "f8d6e0586b0a20c7", ks) : ks \in KeyLists}

RECURSIVE SeqsUpTo(_, _)
SeqsUpTo(S, n) ==
    IF n = 0 THEN {<<>>}
    ELSE LET shorter == SeqsUpTo(S, n - 1) IN
         shorter \cup {Append(q, x) : q \in shorter, x \in S}

IdleKeys ==
    /\ conf = ZeroConf
    /\ key = NilKey
    /\ pc = "idle"
    /\ env = <<>>
    /\ files = [l \in Locations |-> NoFile]
    /\ last = NoCall
    /\ nops = 0
    /\ nchanges = 0

LoadableAccounts ==
    /\ config \in SeqsUpTo(AccountRecords, MaxAccounts)
    /\ accounts = <<>>
    /\ apc = "new"
    /\ alast = NoAccountCall

\* accountsFromConfig(conf)
LoadAccounts ==
    /\ apc = "new"
    /\ LET r == accountsFromConfig(config) IN
       /\ accounts' = r.accounts
       /\ apc' = IF r.err = NoError THEN "loaded" ELSE "failed"
       /\ alast' = [NoAccountCall EXCEPT !.op = "accountsFromConfig",
                      !.accounts = r.accounts, !.isNil = r.isNil, !.err = r.err]
    /\ UNCHANGED <<config, keyVars>>

\* accounts[i].DefaultKey()
CallDefaultKey ==
    /\ apc = "loaded"
    /\ \E i \in 1..Len(accounts) :
         LET r == DefaultKey(accounts[i]) IN
         /\ apc' = IF r.panicked THEN "panicked" ELSE "loaded"
         /\ alast' = [NoAccountCall EXCEPT !.op = "DefaultKey", !.arg = i,
                        !.key = r.key, !.panicked = r.panicked, !.err = r.err]
    /\ UNCHANGED <<config, accounts, keyVars>>

\* accounts[i].SetDefaultKey(k), k a fresh inline key
CallSetDefaultKey ==
    /\ apc = "loaded"
    /\ \E i \in 1..Len(accounts) :
         LET k == NewHexAccountKeyFromPrivateKey(0, SHA3_256, PK(ECDSA_secp256k1, <<205>>))
             r == SetDefaultKey(accounts[i], k)
         IN
         /\ accounts' = [accounts EXCEPT ![i] = r.account]
         /\ apc' = IF r.panicked THEN "panicked" ELSE "loaded"
         /\ alast' = [NoAccountCall EXCEPT !.op = "SetDefaultKey", !.arg = i,
                        !.key = k, !.panicked = r.panicked, !.err = r.err]
    /\ UNCHANGED <<config, keyVars>>

\* accountsToConfig(accounts)
SaveAccounts ==
    /\ apc = "loaded"
    /\ alast' = [NoAccountCall EXCEPT !.op = "accountsToConfig",
                   !.out = accountsToConfig(accounts)]
    /\ UNCHANGED <<config, accounts, apc, keyVars>>

NextAccounts ==
    \/ LoadAccounts
    \/ CallDefaultKey
    \/ CallSetDefaultKey
    \/ SaveAccounts

InitAccounts == IdleKeys /\ LoadableAccounts

SpecAccounts == InitAccounts /\ [][NextAccounts]_vars


\* ------------------------------------------------------------------ claims
Lazy(k) == k.kind \in {"File", "Bip44"}

\* C1: the record ToConfig returns for a File, Derived or KMS key never holds
\* private key material, also after the key has been materialized.
C1_NoSecretInConfig ==
    (last.op = "ToConfig" /\ last.before.kind \in {"File", "Bip44", "Kms"})
        => last.out.PrivateKey = NilPK

\* C2: for an Inline record r, ToConfig(accountKeyFromConfig(r)) has r's
\* private key, index and declared (not defaulted) algorithms, and no field of
\* another variant.
C2_InlineRoundTrip ==
    (last.op = "ToConfig" /\ conf.Type = KeyTypeHex) =>
        /\ last.out.Type = KeyTypeHex
        /\ last.out.PrivateKey = conf.PrivateKey
        /\ last.out.Index = conf.Index
        /\ last.out.SigAlgo = conf.SigAlgo
        /\ last.out.HashAlgo = conf.HashAlgo
        /\ last.out.ResourceID = <<>>
        /\ last.out.Location = ""
        /\ last.out.Mnemonic = ""
        /\ last.out.DerivationPath = <<>>

C2_Witness ==
    /\ last.op = "ToConfig"
    /\ conf.Type = KeyTypeHex
    /\ conf.SigAlgo = UnknownSignatureAlgorithm
    /\ conf.HashAlgo = UnknownHashAlgorithm
    /\ conf.Index > 0
    /\ conf.Location # ""
    /\ nops > 1

\* C3: once a File or Derived key is materialized, no later call on it reads
\* the file or derives again, and PrivateKey keeps returning that material.
C3_MaterializedOnce ==
    (Lazy(last.before) /\ last.before.privateKey # NilPK) =>
        /\ last.reads = 0
        /\ last.derivs = 0
        /\ (last.op = "PrivateKey" /\ last.err = NoError)
              => last.pk = last.before.privateKey

\* C4: DefaultKey on an account without keys fails with an error and does not
\* index the empty list.
C4_DefaultKeyOnEmpty ==
    (alast.op = "DefaultKey" /\ Len(accounts[alast.arg].keys) = 0) =>
        /\ ~alast.panicked
        /\ alast.err # NoError
        /\ apc = "loaded"

\* The key records of an account record, and the account records, that the
\* key factory rejects.
FailingKeys(accountConf) ==
    {j \in 1..Len(accountConf.Keys) : NewAccountKey(accountConf.Keys[j]).err # NoError}
FailingRecords == {i \in 1..Len(config) : FailingKeys(config[i]) # {}}
Least(S) == CHOOSE x \in S : \A y \in S : x <= y

\* C5: accountsFromConfig returns the error of the first failing record and
\* no accounts (nil), or else one account per record in order with its keys in
\* record order.
C5_FailFast ==
    alast.op = "accountsFromConfig" =>
        IF FailingRecords # {}
        THEN LET rec == config[Least(FailingRecords)] IN
             /\ alast.err = NewAccountKey(rec.Keys[Least(FailingKeys(rec))]).err
             /\ alast.isNil
             /\ alast.accounts = <<>>
             /\ accounts = <<>>
        ELSE /\ alast.err = NoError
             /\ alast.accounts = accounts
             /\ Len(accounts) = Len(config)
             /\ \A i \in 1..Len(config) :
                  /\ accounts[i].name = config[i].Name
                  /\ accounts[i].address = config[i].Address
                  /\ Len(accounts[i].keys) = Len(config[i].Keys)
                  /\ \A j \in 1..Len(config[i].Keys) :
                       accounts[i].keys[j] = NewAccountKey(config[i].Keys[j]).key

C5_Witness ==
    /\ alast.op = "accountsFromConfig"
    /\ Len(config) = 3
    /\ FailingRecords = {3}
    /\ Len(config[1].Keys) > 0
    /\ alast.err = <<"invalid key type: \"", "unknown-type", "\"">>

\* C6: the factory returns a key exactly for the four variant tags whose
\* constructor succeeds; any other tag gives no key and an error naming the
\* tag; the key's Type() is the record's tag whatever is called on it later.
C6_ClosedFactory ==
    pc # "new" =>
        /\ (key # NilKey) <=>
              /\ conf.Type \in KeyTypes
              /\ conf.Type = KeyTypeGoogleKMS
                    => KeyFromResourceID(conf.ResourceID).err = NoError
        /\ conf.Type \notin KeyTypes =>
              /\ pc = "failed"
              /\ last.err[1] = "invalid key type: \""
              /\ \E i \in 2..Len(last.err) : last.err[i] = conf.Type
        /\ key # NilKey => Type(key) = conf.Type

C6_Witness ==
    /\ pc = "failed"
    /\ conf.Type = "unknown-type"
    /\ key = NilKey
    /\ last.op = "accountKeyFromConfig"

\* C7: a KMS key's Signer called without the credential in the environment
\* first runs the sign-in, and asks for the remote signer only with the
\* credential present.
C7_SignerEstablishesCredential ==
    (last.op = "Signer" /\ last.before.kind = "Kms" /\ last.envBefore = <<>>) =>
        /\ Len(last.calls) > 0
        /\ last.calls[1] = "gcloudApplicationSignin"
        /\ (\E i \in 1..Len(last.calls) : last.calls[i] = "SignerForKey") => env # <<>>

\* C8: ToConfig of a File key carries the record's index and location.
C8_FileIndexKept ==
    (last.op = "ToConfig" /\ last.before.kind = "File") =>
        /\ last.out.Type = KeyTypeFile
        /\ last.out.Index = conf.Index
        /\ last.out.Location = conf.Location

\* C9: the factory refuses a Derived record without mnemonic or derivation
\* path: it returns an error and no key.
C9_DerivedCheckedAtConstruction ==
    (pc # "new" /\ conf.Type = KeyTypeBip44
       /\ (conf.Mnemonic = "" \/ conf.DerivationPath = <<>>)) =>
        /\ key = NilKey
        /\ pc = "failed"

\* C10: a Derived key's material is derived on the P-256 curve exactly when
\* the key's resolved SigAlgo(), under which it is decoded, is ECDSA_P256.
C10_CurveMatchesSigAlgo ==
    (key.kind = "Bip44" /\ key.privateKey # NilPK) =>
        /\ key.privateKey.algo = SigAlgo(key)
        /\ (CurveOfKeyBytes(key.privateKey.bytes) = CurveP256)
              <=> (SigAlgo(key) = ECDSA_P256)

====
